---- MODULE Spec2Model ----
(***************************************************************************)
(* Reward ledger of the Telegram ad-network bot (src/telegram_bot.py).     *)
(*                                                                         *)
(* The remote store is the only shared state: users/<userId> holds the     *)
(* account records, referrals/<referrerId>/<userId> the referral ledger.   *)
(* Every store call of a handler (get, set, update) is one atomic step; a  *)
(* handler is a sequence of such steps and handlers interleave between     *)
(* them.  Every store call may raise; the parameter ok of a step chooses   *)
(* whether it succeeds.  Money is counted in integer cents, so that the    *)
(* referral reward 0.01 is 1 and the withdrawal minimum 60 is 6000.        *)
(* Fields of the account record that no handler reads in a condition       *)
(* (names, ad counters, timestamps) are left out of the records.           *)
(***************************************************************************)
EXTENDS Integers, FiniteSets, Sequences, TLC

\* ---------------------------------------------------------------- bounds
MaxTelegramId == 2
MaxReferrerId == 1
NumProcs == 2
MaxCommands == 2
MaxInit == 1
MaxDelta == 1

TelegramIds == 1..MaxTelegramId
Procs == 1..NumProcs

\* ------------------------------------------------------------- constants
CentsPerUnit == 100
Reward == 1
FirstWithdrawalMinReferrals == 15
MinWithdrawalBalance == 60 * CentsPerUnit

\* --------------------------------------------------------------- helpers
\* f'tg_{telegram_id}'
UserId(t) == "tg_" \o ToString(t)

\* the user registered before the run; it sends no command during it
FirstUser == UserId(0)

UserIds == {FirstUser} \cup {UserId(t) : t \in TelegramIds}

\* Python's None and the empty dict are both falsy; both are the empty map.
None == <<>>

Falsy(d) == DOMAIN d = {}

\* context.args[0] of /start: nothing, or the payload tg_<id> of the
\* referral link of one of the users whose links are in circulation
NoReferrer == ""

ReferrerArgs == {NoReferrer} \cup {UserId(t) : t \in 0..MaxReferrerId}

\* dict.get(key, default)
Get(d, k, default) == IF k \in DOMAIN d THEN d[k] ELSE default

\* the result of Update(path, fieldMap): a partial merge
Merge(d, fields) ==
  [k \in (DOMAIN d) \cup (DOMAIN fields) |->
      IF k \in DOMAIN fields THEN fields[k] ELSE d[k]]

\* db.reference(path).get(): the value at the path, None when absent
StoreGet(store, path) == IF path \in DOMAIN store THEN store[path] ELSE None

\* db.reference(path).set(value)
StoreSet(store, path, value) ==
  [k \in (DOMAIN store) \cup {path} |-> IF k = path THEN value ELSE store[k]]

\* the user_data dict of create_user
NewUserData(user_id) ==
  [userId |-> user_id, balance |-> 0, referrals |-> 0, referralEarnings |-> 0, totalEarnings |-> 0,
   totalWithdrawals |-> 0, withdrawalPending |-> FALSE]

\* the ledger entry written by handle_referral
LedgerEntry(new_user_id, new_telegram_id) ==
  [userId |-> new_user_id, telegramId |-> new_telegram_id]

\* if referrer_id and referrer_id != user_id
ShouldHandleReferralNoSelfCheck(referrer_id, user_id) == referrer_id # NoReferrer

ShouldHandleReferral(referrer_id, user_id) ==
  referrer_id # NoReferrer /\ referrer_id # user_id

\* the field map handed to referrer_ref.update
RewardFieldsNoTotal(referrer_data) ==
  [referrals |-> Get(referrer_data, "referrals", 0) + 1,
   referralEarnings |-> Get(referrer_data, "referralEarnings", 0) + Reward,
   balance |-> Get(referrer_data, "balance", 0) + Reward,
   totalEarnings |-> Get(referrer_data, "totalEarnings", 0)]

RewardFieldsNoBalance(referrer_data) ==
  [referrals |-> Get(referrer_data, "referrals", 0) + 1,
   referralEarnings |-> Get(referrer_data, "referralEarnings", 0) + Reward,
   balance |-> Get(referrer_data, "balance", 0),
   totalEarnings |-> Get(referrer_data, "totalEarnings", 0) + Reward]

RewardFields(referrer_data) ==
  [referrals |-> Get(referrer_data, "referrals", 0) + 1,
   referralEarnings |-> Get(referrer_data, "referralEarnings", 0) + Reward,
   balance |-> Get(referrer_data, "balance", 0) + Reward,
   totalEarnings |-> Get(referrer_data, "totalEarnings", 0) + Reward]

\* the record at users/<referrer_id> after referrer_ref.update: the fields are
\* computed from the handler's earlier read, not from the stored record
UpdatedRecordAtomic(current, referrer_data) == Merge(current, RewardFields(current))

UpdatedRecord(current, referrer_data) == Merge(current, RewardFields(referrer_data))

\* what create_user returns: None when ref.set raised; handle_referral
\* catches its own exceptions, so a failed referral does not change it
create_user_result_propagating(user_id, set_raised, referral_raised) ==
  IF set_raised \/ referral_raised THEN None ELSE NewUserData(user_id)

create_user_result(user_id, set_raised, referral_raised) ==
  IF set_raised THEN None ELSE NewUserData(user_id)

\* a message to the chat of telegram id t: its kind and the number it reports
Msg(t, kind, amount) == [to |-> t, kind |-> kind, amount |-> amount]

NoReply == Msg(-1, "none", 0)

\* the branches of withdraw_command after the record was read
withdraw_outcome_swapped(t, user_data) ==
  LET balance == Get(user_data, "balance", 0)
      referrals == Get(user_data, "referrals", 0)
      total_withdrawals == Get(user_data, "totalWithdrawals", 0)
      withdrawal_pending == Get(user_data, "withdrawalPending", FALSE)
  IN  IF withdrawal_pending THEN Msg(t, "Pending", 0)
      ELSE IF balance < MinWithdrawalBalance
        THEN Msg(t, "NeedsBalance", MinWithdrawalBalance - balance)
      ELSE IF total_withdrawals = 0 /\ referrals < FirstWithdrawalMinReferrals
        THEN Msg(t, "NeedsReferrals", FirstWithdrawalMinReferrals - referrals)
      ELSE Msg(t, "Eligible", 0)

withdraw_outcome(t, user_data) ==
  LET balance == Get(user_data, "balance", 0)
      referrals == Get(user_data, "referrals", 0)
      total_withdrawals == Get(user_data, "totalWithdrawals", 0)
      withdrawal_pending == Get(user_data, "withdrawalPending", FALSE)
  IN  IF withdrawal_pending THEN Msg(t, "Pending", 0)
      ELSE IF total_withdrawals = 0 /\ referrals < FirstWithdrawalMinReferrals
        THEN Msg(t, "NeedsReferrals", FirstWithdrawalMinReferrals - referrals)
      ELSE IF balance < MinWithdrawalBalance
        THEN Msg(t, "NeedsBalance", MinWithdrawalBalance - balance)
      ELSE Msg(t, "Eligible", 0)

\* ----------------------------------------------------------------- state
VARIABLES
  accounts,         \* users/<userId> -> account record
  ledger,           \* referrals/<referrerId>/<userId> -> ledger entry
  pc,               \* per handler: the call it is about to make
  telegram_id,      \* per handler: update.effective_user.id
  referrer_id,      \* per handler: context.args[0], NoReferrer without args
  user_data,        \* per handler: the local user_data
  referrer_data,    \* per handler: the local referrer_data of handle_referral
  referral_status,  \* per handler: how handle_referral ended
  sent,             \* the message sent last to a user
  started,          \* number of commands received so far
  applied,          \* per user id: completed referrer_ref.update calls
  creates,          \* per user id: completed ref.set calls of create_user
  initial           \* the account records of the initial state

vars == <<accounts, ledger, pc, telegram_id, referrer_id, user_data,
          referrer_data, referral_status, sent, started, applied, creates,
          initial>>

InitHandlers ==
  /\ pc = [p \in Procs |-> "idle"]
  /\ telegram_id = [p \in Procs |-> -1]
  /\ referrer_id = [p \in Procs |-> NoReferrer]
  /\ user_data = [p \in Procs |-> None]
  /\ referrer_data = [p \in Procs |-> None]
  /\ referral_status = [p \in Procs |-> "none"]
  /\ sent = NoReply
  /\ started = 0
  /\ applied = [u \in UserIds \cup ReferrerArgs |-> 0]

\* the store before the run: the first user has registered without referrer
Init ==
  /\ accounts = StoreSet(<<>>, FirstUser, NewUserData(FirstUser))
  /\ ledger = <<>>
  /\ initial = accounts
  /\ creates = [u \in UserIds |-> IF u = FirstUser THEN 1 ELSE 0]
  /\ InitHandlers

\* ----------------------------------------------------------- dispatching
\* The handlers are interchangeable: a command is given to the first free one.
FirstFree(p) == pc[p] = "idle" /\ \A q \in Procs : q < p => pc[q] # "idle"

Quiescent == \A q \in Procs : pc[q] = "idle"

\* the handler returns: its locals are gone
Return(p) ==
  /\ pc' = [pc EXCEPT ![p] = "idle"]
  /\ telegram_id' = [telegram_id EXCEPT ![p] = -1]
  /\ referrer_id' = [referrer_id EXCEPT ![p] = NoReferrer]
  /\ user_data' = [user_data EXCEPT ![p] = None]
  /\ referrer_data' = [referrer_data EXCEPT ![p] = None]
  /\ referral_status' = [referral_status EXCEPT ![p] = "none"]

\* ---------------------------------------------------------------- /start
\* get_user_data: the record, or None when absent or when the read raises
get_user_data(store, t, ok) == IF ok THEN StoreGet(store, UserId(t)) ELSE None

\* start_command up to the branch on the record read:
\* user_data = get_user_data(telegram_id); if not user_data: ...
start_get_user_data(p, t, a, ok) ==
  /\ FirstFree(p)
  /\ started < MaxCommands
  /\ started' = started + 1
  /\ telegram_id' = [telegram_id EXCEPT ![p] = t]
  /\ referrer_id' = [referrer_id EXCEPT ![p] = a]
  /\ LET d == get_user_data(accounts, t, ok)
     IN  /\ user_data' = [user_data EXCEPT ![p] = d]
         /\ pc' = [pc EXCEPT ![p] =
                     IF Falsy(d) THEN "create_set" ELSE "reply_back"]
  /\ UNCHANGED <<accounts, ledger, referrer_data, referral_status, sent,
                 applied, creates, initial>>

\* create_user: ref.set(user_data), then the referral test
create_user_set(p, ok) ==
  /\ pc[p] = "create_set"
  /\ LET user_id == UserId(telegram_id[p])
     IN  IF ok
         THEN /\ accounts' = StoreSet(accounts, user_id, NewUserData(user_id))
              /\ creates' = [creates EXCEPT ![user_id] = @ + 1]
              /\ IF ShouldHandleReferral(referrer_id[p], user_id)
                 THEN /\ pc' = [pc EXCEPT ![p] = "ledger_set"]
                      /\ UNCHANGED user_data
                 ELSE /\ pc' = [pc EXCEPT ![p] = "reply_new"]
                      /\ user_data' = [user_data EXCEPT ![p] =
                                  create_user_result(user_id, FALSE, FALSE)]
         ELSE /\ pc' = [pc EXCEPT ![p] = "reply_new"]
              /\ user_data' = [user_data EXCEPT ![p] =
                                 create_user_result(user_id, TRUE, FALSE)]
              /\ UNCHANGED <<accounts, creates>>
  /\ UNCHANGED <<ledger, telegram_id, referrer_id, referrer_data,
                 referral_status, sent, started, applied, initial>>

\* handle_referral: ref.set of the ledger entry
handle_referral_set(p, ok) ==
  /\ pc[p] = "ledger_set"
  /\ LET user_id == UserId(telegram_id[p])
     IN  IF ok
         THEN /\ ledger' = StoreSet(ledger, <<referrer_id[p], user_id>>,
                                    LedgerEntry(user_id, telegram_id[p]))
              /\ pc' = [pc EXCEPT ![p] = "referrer_get"]
              /\ UNCHANGED <<user_data, referral_status>>
         ELSE /\ referral_status' = [referral_status EXCEPT ![p] = "error"]
              /\ pc' = [pc EXCEPT ![p] = "reply_new"]
              /\ user_data' = [user_data EXCEPT ![p] =
                                 create_user_result(user_id, FALSE, TRUE)]
              /\ UNCHANGED ledger
  /\ UNCHANGED <<accounts, telegram_id, referrer_id, referrer_data, sent,
                 started, applied, creates, initial>>

\* handle_referral: referrer_data = referrer_ref.get(); if referrer_data: ...
handle_referral_get(p, ok) ==
  /\ pc[p] = "referrer_get"
  /\ LET user_id == UserId(telegram_id[p])
     IN  IF ok
         THEN LET d == StoreGet(accounts, referrer_id[p])
              IN  /\ referrer_data' = [referrer_data EXCEPT ![p] = d]
                  /\ IF Falsy(d)
                     THEN /\ referral_status' =
                               [referral_status EXCEPT ![p] = "no_referrer"]
                          /\ pc' = [pc EXCEPT ![p] = "reply_new"]
                          /\ user_data' = [user_data EXCEPT ![p] =
                                  create_user_result(user_id, FALSE, FALSE)]
                     ELSE /\ pc' = [pc EXCEPT ![p] = "referrer_update"]
                          /\ UNCHANGED <<user_data, referral_status>>
         ELSE /\ referral_status' = [referral_status EXCEPT ![p] = "error"]
              /\ pc' = [pc EXCEPT ![p] = "reply_new"]
              /\ user_data' = [user_data EXCEPT ![p] =
                                 create_user_result(user_id, FALSE, TRUE)]
              /\ UNCHANGED referrer_data
  /\ UNCHANGED <<accounts, ledger, telegram_id, referrer_id, sent, started,
                 applied, creates, initial>>

\* handle_referral: referrer_ref.update({...})
handle_referral_update(p, ok) ==
  /\ pc[p] = "referrer_update"
  /\ LET r == referrer_id[p]
         user_id == UserId(telegram_id[p])
     IN  IF ok
         THEN /\ accounts' = StoreSet(accounts, r,
                               UpdatedRecord(StoreGet(accounts, r),
                                             referrer_data[p]))
              /\ applied' = [applied EXCEPT ![r] = @ + 1]
              /\ referral_status' = [referral_status EXCEPT ![p] = "rewarded"]
              /\ user_data' = [user_data EXCEPT ![p] =
                                 create_user_result(user_id, FALSE, FALSE)]
         ELSE /\ referral_status' = [referral_status EXCEPT ![p] = "error"]
              /\ user_data' = [user_data EXCEPT ![p] =
                                 create_user_result(user_id, FALSE, TRUE)]
              /\ UNCHANGED <<accounts, applied>>
  /\ pc' = [pc EXCEPT ![p] = "reply_new"]
  /\ UNCHANGED <<ledger, telegram_id, referrer_id, referrer_data, sent,
                 started, creates, initial>>

\* the welcome text start_command builds: the greeting of the new-user
\* branch, whatever create_user returned, or the balance summary
start_welcome_text(t, new_user, user_data_now) ==
  IF new_user THEN Msg(t, "welcome", 0)
  ELSE Msg(t, "welcome_back", Get(user_data_now, "balance", 0))

\* await update.message.reply_html(welcome_text, reply_markup=reply_markup)
start_command_reply(p) ==
  /\ pc[p] \in {"reply_new", "reply_back"}
  /\ sent' = start_welcome_text(telegram_id[p], pc[p] = "reply_new",
                                user_data[p])
  /\ Return(p)
  /\ UNCHANGED <<accounts, ledger, started, applied, creates, initial>>

Next ==
  \E p \in Procs :
    \/ \E t \in TelegramIds, a \in ReferrerArgs, ok \in BOOLEAN :
         start_get_user_data(p, t, a, ok)
    \/ \E ok \in BOOLEAN : create_user_set(p, ok)
    \/ \E ok \in BOOLEAN : handle_referral_set(p, ok)
    \/ \E ok \in BOOLEAN : handle_referral_get(p, ok)
    \/ \E ok \in BOOLEAN : handle_referral_update(p, ok)
    \/ start_command_reply(p)

Spec == Init /\ [][Next]_vars

\* ------------------------------------------------ sequential, no failure
\* The commands handled one after another and every store call succeeding.
\* The first user starts with earlier referrals, ad earnings and withdrawals.
RECURSIVE EarlierLedger(_)
EarlierLedger(r) ==
  IF r = 0 THEN <<>>
  ELSE StoreSet(EarlierLedger(r - 1),
                <<FirstUser, UserId(MaxTelegramId + r)>>,
                LedgerEntry(UserId(MaxTelegramId + r), MaxTelegramId + r))

InitSeq ==
  /\ \E r \in 0..MaxInit, ads \in 0..MaxInit :
       \E b \in 0..(r * Reward + ads) :
         /\ accounts = StoreSet(<<>>, FirstUser,
              [userId |-> FirstUser, balance |-> b, referrals |-> r,
               referralEarnings |-> r * Reward,
               totalEarnings |-> r * Reward + ads,
               totalWithdrawals |-> r * Reward + ads - b,
               withdrawalPending |-> FALSE])
         /\ ledger = EarlierLedger(r)
  /\ initial = accounts
  /\ creates = [u \in UserIds |-> IF u = FirstUser THEN 1 ELSE 0]
  /\ InitHandlers

NextSeq ==
  \E p \in Procs :
    \/ \E t \in TelegramIds, a \in ReferrerArgs :
         Quiescent /\ start_get_user_data(p, t, a, TRUE)
    \/ create_user_set(p, TRUE)
    \/ handle_referral_set(p, TRUE)
    \/ handle_referral_get(p, TRUE)
    \/ handle_referral_update(p, TRUE)
    \/ start_command_reply(p)

SpecSeq == InitSeq /\ [][NextSeq]_vars

\* -------------------------------------------------------------- /withdraw
\* withdraw_command up to the branch on the record read
withdraw_get_user_data(p, t, ok) ==
  /\ FirstFree(p)
  /\ started < MaxCommands
  /\ started' = started + 1
  /\ telegram_id' = [telegram_id EXCEPT ![p] = t]
  /\ user_data' = [user_data EXCEPT ![p] = get_user_data(accounts, t, ok)]
  /\ pc' = [pc EXCEPT ![p] = "withdraw_reply"]
  /\ UNCHANGED <<accounts, ledger, referrer_id, referrer_data,
                 referral_status, sent, applied, creates, initial>>

\* the one reply withdraw_command sends
withdraw_command_reply(p) ==
  /\ pc[p] = "withdraw_reply"
  /\ sent' = IF Falsy(user_data[p]) THEN Msg(telegram_id[p], "UseStartFirst", 0)
             ELSE withdraw_outcome(telegram_id[p], user_data[p])
  /\ Return(p)
  /\ UNCHANGED <<accounts, ledger, started, applied, creates, initial>>

\* a field of a stored record, which may be missing
Field(name, value, present) == IF present THEN name :> value ELSE <<>>

Around(n) == {n + d : d \in (0 - MaxDelta)..MaxDelta} \cup (0..MaxDelta)

\* The record of user 1 is any record over the bounded value sets, each of
\* the four fields the handler reads present or missing.
InitWithdraw ==
  /\ \E hp, ht, hr, hb, wp \in BOOLEAN :
       \E tw \in 0..MaxDelta, r \in Around(FirstWithdrawalMinReferrals),
          b \in Around(MinWithdrawalBalance) :
         /\ hp \/ ~wp
         /\ ht \/ tw = 0
         /\ hr \/ r = 0
         /\ hb \/ b = 0
         /\ accounts = StoreSet(StoreSet(<<>>, FirstUser, NewUserData(FirstUser)),
              UserId(1),
              [userId |-> UserId(1)] @@ Field("withdrawalPending", wp, hp)
                @@ Field("totalWithdrawals", tw, ht)
                @@ Field("referrals", r, hr) @@ Field("balance", b, hb))
  /\ ledger = <<>>
  /\ initial = accounts
  /\ creates = [u \in UserIds |-> IF u \in {FirstUser, UserId(1)} THEN 1 ELSE 0]
  /\ InitHandlers

NextWithdraw ==
  \E p \in Procs :
    \/ \E t \in TelegramIds, ok \in BOOLEAN :
         Quiescent /\ withdraw_get_user_data(p, t, ok)
    \/ withdraw_command_reply(p)

SpecWithdraw == InitWithdraw /\ [][NextWithdraw]_vars

\* ================================================================ claims
SelfReferring(t, a) == a = UserId(t)

\* the ledger entries stored under referrals/<R>
EntriesUnder(R) == {k \in DOMAIN ledger : k[1] = R}

\* C1 (SpecWithdraw): whenever /withdraw has answered a user whose record it
\* read, the answer is the one of the ordered four-step rule applied to that
\* user's stored record, missing fields read as balance 0, referrals 0,
\* totalWithdrawals 0 and withdrawalPending false: Pending if a withdrawal is
\* pending; else NeedsReferrals(15 - referrals) if nothing was withdrawn yet
\* and referrals < 15; else NeedsBalance(60.00 - balance) if balance < 60.00;
\* else Eligible.
FieldDefaults ==
  [balance |-> 0, referrals |-> 0, totalWithdrawals |-> 0,
   withdrawalPending |-> FALSE]

EligibilityReference(account) ==
  LET f == Merge(FieldDefaults, account)
      step1 == f.withdrawalPending
      step2 == f.totalWithdrawals = 0 /\ f.referrals < 15
      step3 == f.balance < 60 * CentsPerUnit
  IN  CASE step1 -> <<"Pending", 0>>
        [] ~step1 /\ step2 -> <<"NeedsReferrals", 15 - f.referrals>>
        [] ~step1 /\ ~step2 /\ step3 -> <<"NeedsBalance", 60 * CentsPerUnit - f.balance>>
        [] ~step1 /\ ~step2 /\ ~step3 -> <<"Eligible", 0>>

C2_BalanceWithinEarnings ==
  \A u \in DOMAIN accounts :
    Get(accounts[u], "balance", 0) <= Get(accounts[u], "totalEarnings", 0)

\* a referrer was rewarded while another handler's referral step failed
C2_Witness ==
  /\ \E u \in DOMAIN accounts : Get(accounts[u], "balance", 0) >= Reward
  /\ \E p \in Procs : referral_status[p] = "error"

\* C3 (Spec): the account record of a user is written by create_user at most
\* once: no user's record is set a second time.
C3_CreatedExactlyOnce == \A u \in DOMAIN creates : creates[u] <= 1

\* C4 (Spec): in the referral ledger a referred user id appears under at
\* most one referrer.
C4_OneReferrerPerReferredUser ==
  \A k1, k2 \in DOMAIN ledger : k1[2] = k2[2] => k1[1] = k2[1]

\* C5 (Spec): every step of a /start handler whose referrer argument is the
\* sender's own id tg_<telegram_id> leaves the referral ledger and every
\* other user's account record unchanged, and the only record it writes is
\* the sender's own new record with all counters zero.
C5_SelfReferralStep(p) ==
  LET t == IF pc[p] = "idle" THEN telegram_id'[p] ELSE telegram_id[p]
      a == IF pc[p] = "idle" THEN referrer_id'[p] ELSE referrer_id[p]
      own == UserId(t)
  IN  (pc'[p] # pc[p] /\ SelfReferring(t, a)) =>
        /\ ledger' = ledger
        /\ applied' = applied
        /\ \A u \in DOMAIN accounts \ {own} :
             u \in DOMAIN accounts' /\ accounts'[u] = accounts[u]
        /\ DOMAIN accounts' \subseteq DOMAIN accounts \cup {own}
        /\ accounts' # accounts =>
             /\ accounts'[own].balance = 0
             /\ accounts'[own].referrals = 0
             /\ accounts'[own].referralEarnings = 0
             /\ accounts'[own].totalEarnings = 0

C5_SelfReferralChangesNothing == [][\A p \in Procs : C5_SelfReferralStep(p)]_vars

\* create_user has returned the new account of a self-referring sender
C5_Witness ==
  \E p \in Procs :
    /\ pc[p] = "reply_new"
    /\ SelfReferring(telegram_id[p], referrer_id[p])
    /\ ~Falsy(user_data[p])
    /\ accounts[UserId(telegram_id[p])].balance = 0
    /\ creates[UserId(telegram_id[p])] >= 1

\* C6 (Spec): while a handler is in a referral step the new user's account
\* record is already in the store, and after a referral step has failed the
\* record is still there and create_user has returned the new account, not
\* None.
C6_AccountSurvivesReferralFailure ==
  \A p \in Procs :
    /\ pc[p] \in {"ledger_set", "referrer_get", "referrer_update"} =>
         /\ UserId(telegram_id[p]) \in DOMAIN accounts
         /\ creates[UserId(telegram_id[p])] >= 1
    /\ referral_status[p] = "error" =>
         /\ UserId(telegram_id[p]) \in DOMAIN accounts
         /\ pc[p] = "reply_new"
         /\ ~Falsy(user_data[p])
         /\ user_data[p].userId = UserId(telegram_id[p])

\* a referral step has failed for a handler that created a new account
C6_Witness ==
  \E p \in Procs :
    /\ referral_status[p] = "error"
    /\ UserId(telegram_id[p]) \in DOMAIN accounts
    /\ ~Falsy(user_data[p])

\* C7 (Spec): a handler whose create_user returned None sends no welcome
\* message when it replies.
C7_NoWelcomeAfterFailedCreate ==
  [][\A p \in Procs :
       (pc[p] = "reply_new" /\ Falsy(user_data[p]) /\ pc'[p] = "idle") =>
         sent'.kind \notin {"welcome", "welcome_back"}]_vars

\* C8 (SpecSeq): with the commands handled one after another and no store
\* failure, a referrer whose record started with referrals r and balance b
\* has, after N completed reward applications, referrals r + N and balance
\* b + N * reward; referralEarnings and totalEarnings have grown by
\* N * reward as well.
StartRecord(R) == IF R \in DOMAIN initial THEN initial[R] ELSE NewUserData(R)

C8_SequentialRewardsAddUp ==
  \A R \in DOMAIN accounts :
    LET N == applied[R]
        r0 == StartRecord(R)
    IN  /\ accounts[R].referrals = r0.referrals + N
        /\ accounts[R].balance = r0.balance + N * Reward
        /\ accounts[R].referralEarnings = r0.referralEarnings + N * Reward
        /\ accounts[R].totalEarnings = r0.totalEarnings + N * Reward

\* the reward applied twice to a referrer that started with referrals and
\* a balance above zero
C8_Witness ==
  \E R \in DOMAIN initial :
    /\ applied[R] = 2
    /\ initial[R].referrals = 1
    /\ initial[R].balance > 0
    /\ accounts[R].referrals = 3

\* C9 (Spec): a successful referrer update stores the counters computed from
\* the handler's own earlier read (read value + 1, read value + reward),
\* whatever the store holds by then; so two handlers that both read the
\* record before either wrote leave referrals at r + 1 and the balance
\* raised by one reward.
C9_UpdateStep(p) ==
  (pc[p] = "referrer_update" /\ referral_status'[p] = "rewarded") =>
    LET R == referrer_id[p]
        d == referrer_data[p]
    IN  /\ accounts'[R].referrals = d.referrals + 1
        /\ accounts'[R].balance = d.balance + Reward
        /\ accounts'[R].referralEarnings = d.referralEarnings + Reward
        /\ accounts'[R].totalEarnings = d.totalEarnings + Reward

C9_UpdateWritesFromOwnRead == [][\A p \in Procs : C9_UpdateStep(p)]_vars

\* two handlers have both completed the reward of the same referrer without
\* error, from the same read, and one increment is lost
C9_Witness ==
  \E p, q \in Procs :
    /\ p # q
    /\ pc[p] = "reply_new" /\ pc[q] = "reply_new"
    /\ referral_status[p] = "rewarded" /\ referral_status[q] = "rewarded"
    /\ referrer_id[p] = referrer_id[q]
    /\ referrer_data[p] = referrer_data[q]
    /\ applied[referrer_id[p]] = 2
    /\ creates[referrer_id[p]] = 1
    /\ accounts[referrer_id[p]].referrals = referrer_data[p].referrals + 1
    /\ accounts[referrer_id[p]].balance = referrer_data[p].balance + Reward

\* C10 (Spec): for every referrer R, R's referrals counter is no greater
\* than the number of ledger entries stored under referrals/R.
C10_RewardedOncePerReferredUser ==
  \A R \in DOMAIN accounts :
    Get(accounts[R], "referrals", 0) <= Cardinality(EntriesUnder(R))

====
